---- MODULE Spec2Model ----
(***************************************************************************)
(* GCB sizing (dalgoozy/GCB-sizing_Preliminary): the fault-current solvers *)
(* and the waveform sampler of src/services/geminiService.ts, the rating   *)
(* selection and the form state of src/App.tsx.                            *)
(*                                                                         *)
(* Numbers.  Every quantity of the program is a JavaScript number.  A      *)
(* number is modelled as a binary floating-point value with a 24-bit       *)
(* significand, round-to-nearest-even, and the special values NaN and      *)
(* +/-Infinity:                                                            *)
(*     [k |-> "num", m |-> significand, e |-> exponent]   = m * 2^e        *)
(*     [k |-> "inf", m |-> sign, e |-> 0]                                  *)
(*     [k |-> "nan", m |-> 0, e |-> 0]                                     *)
(* with m = 0 (and e = 0) or 2^23 <= |m| < 2^24, so that equal numbers are *)
(* equal records.  The exponent is unbounded (no overflow to Infinity and  *)
(* no underflow other than in Math.exp), and zero carries no sign (-0 is   *)
(* 0): the inputs of the model keep every value far inside the range       *)
(* of a double, and no operation of the program divides by a zero whose    *)
(* sign is negative.                                                       *)
(***************************************************************************)
EXTENDS Integers, Sequences, FiniteSets, TLC

NaN == [k |-> "nan", m |-> 0, e |-> 0]

Inf(s) == [k |-> "inf", m |-> s, e |-> 0]

Zero == [k |-> "num", m |-> 0, e |-> 0]

Abs(n) == IF n < 0 THEN -n ELSE n

Sgn(n) == IF n < 0 THEN -1 ELSE IF n > 0 THEN 1 ELSE 0

\* Number of bits of n, 1 <= n < 2^31.
BitLen(n) ==
    CHOOSE b \in 1..31 : 2^(b-1) <= n /\ (b = 31 \/ n < 2^b)

\* n / 2^sh rounded to the nearest integer, ties to even (n >= 0, 1 <= sh <= 30).
RoundShift(n, sh) ==
    LET q == n \div 2^sh
        r == n % 2^sh
        h == 2^(sh-1)
    IN  IF r > h \/ (r = h /\ q % 2 = 1) THEN q + 1 ELSE q

\* The number nearest to s * n * 2^e (s = +/-1, 0 <= n < 2^31).
Norm(s, n, e) ==
    IF n = 0 THEN Zero
    ELSE LET b == BitLen(n)
         IN  IF b <= 24
             THEN [k |-> "num", m |-> s * n * 2^(24-b), e |-> e - (24-b)]
             ELSE LET q == RoundShift(n, b-24)
                  IN  IF q = 2^24
                      THEN [k |-> "num", m |-> s * 2^23, e |-> e + (b-24) + 1]
                      ELSE [k |-> "num", m |-> s * q, e |-> e + (b-24)]

\* An integer as a number (a numeric literal, or an integer-valued input).
FromInt(n) == Norm(Sgn(n), Abs(n), 0)

One == FromInt(1)

FNeg(a) == [a EXCEPT !.m = -a.m]

\* a * b
FMul(a, b) ==
    IF a.k = "nan" \/ b.k = "nan" THEN NaN
    ELSE IF a.k = "inf" \/ b.k = "inf"
         THEN IF a.m = 0 \/ b.m = 0 THEN NaN ELSE Inf(Sgn(a.m) * Sgn(b.m))
    ELSE IF a.m = 0 \/ b.m = 0 THEN Zero
    ELSE LET x == Abs(a.m)
             y == Abs(b.m)
             xh == x \div 4096
             xl == x % 4096
             yh == y \div 4096
             yl == y % 4096
             mid == xh * yl + xl * yh
             low == (mid % 4096) * 4096 + xl * yl
             q == xh * yh + (mid \div 4096) + (low \div 2^24)
             r == low % 2^24
             n == q * 8 + (r \div 2^22) * 2 + (IF r % 2^22 # 0 THEN 1 ELSE 0)
         IN  Norm(Sgn(a.m) * Sgn(b.m), n, a.e + b.e + 21)

\* a / b
FDiv(a, b) ==
    IF a.k = "nan" \/ b.k = "nan" THEN NaN
    ELSE IF a.k = "inf"
         THEN IF b.k = "inf" THEN NaN
              ELSE Inf(a.m * (IF b.m < 0 THEN -1 ELSE 1))
    ELSE IF b.k = "inf" THEN Zero
    ELSE IF b.m = 0 THEN (IF a.m = 0 THEN NaN ELSE Inf(Sgn(a.m)))
    ELSE IF a.m = 0 THEN Zero
    ELSE LET x == Abs(a.m)
             y == Abs(b.m)
             q0 == x \div y
             r0 == x % y
             q1 == q0 * 64 + (r0 * 64) \div y
             r1 == (r0 * 64) % y
             q2 == q1 * 64 + (r1 * 64) \div y
             r2 == (r1 * 64) % y
             q3 == q2 * 64 + (r2 * 64) \div y
             r3 == (r2 * 64) % y
             q4 == q3 * 64 + (r3 * 64) \div y
             r4 == (r3 * 64) % y
             q5 == q4 * 4 + (r4 * 4) \div y
             r5 == (r4 * 4) % y
             n == q5 * 2 + (IF r5 # 0 THEN 1 ELSE 0)
         IN  Norm(Sgn(a.m) * Sgn(b.m), n, a.e - b.e - 27)

\* a + b
FAdd(a, b) ==
    IF a.k = "nan" \/ b.k = "nan" THEN NaN
    ELSE IF a.k = "inf"
         THEN IF b.k = "inf" /\ b.m # a.m THEN NaN ELSE a
    ELSE IF b.k = "inf" THEN b
    ELSE IF a.m = 0 THEN b
    ELSE IF b.m = 0 THEN a
    ELSE LET hi == IF a.e >= b.e THEN a ELSE b
             lo == IF a.e >= b.e THEN b ELSE a
             d == hi.e - lo.e
         IN  IF d >= 27 THEN hi
             ELSE LET sh == IF d < 5 THEN d ELSE 5
                      t == d - sh - 1
                      y == Abs(lo.m)
                      bq == IF t <= 0 THEN y * 2^(-t)
                            ELSE LET q == y \div 2^t
                                 IN  IF y % 2^t # 0 /\ q % 2 = 0 THEN q + 1 ELSE q
                      sum == hi.m * 2^(sh+1) + Sgn(lo.m) * bq
                 IN  Norm(Sgn(sum), Abs(sum), hi.e - sh - 1)

\* a - b
FSub(a, b) == FAdd(a, FNeg(b))

\* The ordering of two numbers: -1, 0, 1, or 2 when one of them is NaN.
FCmp(a, b) ==
    IF a.k = "nan" \/ b.k = "nan" THEN 2
    ELSE LET sa == Sgn(a.m)
             sb == Sgn(b.m)
             ea == IF a.k = "inf" THEN 2^30 ELSE a.e
             eb == IF b.k = "inf" THEN 2^30 ELSE b.e
         IN  IF sa # sb THEN (IF sa > sb THEN 1 ELSE -1)
             ELSE IF sa = 0 THEN 0
             ELSE IF ea # eb THEN (IF ea > eb THEN sa ELSE -sa)
             ELSE IF a.k = "inf" THEN 0
             ELSE Sgn(a.m - b.m)

FGe(a, b) == FCmp(a, b) \in {0, 1}

FGt(a, b) == FCmp(a, b) = 1

FLe(a, b) == FCmp(a, b) \in {0, -1}

FLt(a, b) == FCmp(a, b) = -1

\* The first argument whatever the second is.
MathMaxFirst(a, b) == a

\* Math.max(a, b)
MathMax(a, b) ==
    IF a.k = "nan" \/ b.k = "nan" THEN NaN
    ELSE IF FCmp(a, b) >= 0 THEN a ELSE b

\* <<x * 2^26 \div r, x * 2^26 % r>> by long division (x < 2^25, 2^24 <= r < 2^26).
DivShift26(x, r) ==
    LET q0 == x \div r
        r0 == x % r
        q1 == q0 * 16 + (r0 * 16) \div r
        r1 == (r0 * 16) % r
        q2 == q1 * 16 + (r1 * 16) \div r
        r2 == (r1 * 16) % r
        q3 == q2 * 16 + (r2 * 16) \div r
        r3 == (r2 * 16) % r
        q4 == q3 * 16 + (r3 * 16) \div r
        r4 == (r3 * 16) % r
        q5 == q4 * 16 + (r4 * 16) \div r
        r5 == (r4 * 16) % r
        q6 == q5 * 16 + (r5 * 16) \div r
        r6 == (r5 * 16) % r
    IN  <<q6 * 4 + (r6 * 4) \div r, (r6 * 4) % r>>

\* One step of Newton's iteration for the integer square root of x * 2^26,
\* from r above it: the next iterate, or r when r is the root.
SqrtStep(x, r) ==
    IF r < 2^24 THEN r
    ELSE LET n == (r + DivShift26(x, r)[1]) \div 2
         IN  IF n < r THEN n ELSE r

\* The integer square root of x * 2^26 (2^23 <= x < 2^25).
SqrtShift26(x) ==
    LET r0 == IF x < 2^24 THEN 2^25 ELSE 47453133
    IN  SqrtStep(x, SqrtStep(x, SqrtStep(x, SqrtStep(x, SqrtStep(x, SqrtStep(x, r0))))))

\* Math.sqrt(a), correctly rounded.
MathSqrt(a) ==
    IF a.k = "nan" THEN NaN
    ELSE IF a.k = "inf" THEN (IF a.m > 0 THEN a ELSE NaN)
    ELSE IF a.m < 0 THEN NaN
    ELSE IF a.m = 0 THEN Zero
    ELSE LET odd == a.e % 2 = 1
             x == IF odd THEN 2 * a.m ELSE a.m
             e2 == IF odd THEN a.e - 1 ELSE a.e
             root == SqrtShift26(x)
             d == DivShift26(x, root)
             n == root * 2 + (IF d[1] = root /\ d[2] = 0 THEN 0 ELSE 1)
         IN  Norm(1, n, (e2 \div 2) - 14)

\* The first power in place of the square.
MathPow1(a) == a

\* Math.pow(a, 2)
MathPow2(a) == FMul(a, a)

\* A decimal literal or a parsed decimal string n/d (13.8 is FromRatio(138, 10)).
FromRatio(n, d) == FDiv(FromInt(n), FromInt(d))

\* The integer nearest to a (|a| < 2^24).
NearestInt(a) ==
    IF a.m = 0 THEN 0
    ELSE IF a.e >= 0 THEN a.m * 2^a.e
    ELSE IF -a.e > 30 THEN 0
    ELSE Sgn(a.m) * RoundShift(Abs(a.m), -a.e)

\* Math.ceil(a)
MathCeil(a) ==
    IF a.k # "num" \/ a.m = 0 \/ a.e >= 0 THEN a
    ELSE IF -a.e >= 24 THEN (IF a.m > 0 THEN One ELSE Zero)
    ELSE FromInt(-((-a.m) \div 2^(-a.e)))

\* |a| * 100 rounded to the nearest integer, ties up: the digits a.toFixed(2)
\* prints (a a number with |a| < 2^24).
Hundredths(a) ==
    IF a.e >= 0 THEN Abs(a.m) * 100 * 2^a.e
    ELSE LET x == Abs(a.m) * 100
             sh == -a.e
         IN  IF sh > 31 THEN 0
             ELSE IF sh = 31 THEN (IF x >= 2^30 THEN 1 ELSE 0)
             ELSE (x \div 2^sh) + (IF x % 2^sh >= 2^(sh-1) THEN 1 ELSE 0)

\* Number(a.toFixed(2)): a rounded to two decimals and read back as a number.
ToFixed2(a) ==
    IF a.k # "num" \/ a.m = 0 \/ a.e >= 0 THEN a
    ELSE FromRatio(Sgn(a.m) * Hundredths(a), 100)

Log2E == [k |-> "num", m |-> 12102203, e |-> -23]   \* 1.442695022

Ln2Hi == [k |-> "num", m |-> 11632640, e |-> -24]   \* 0.693359375

Ln2Lo == [k |-> "num", m |-> -14581891, e |-> -36]  \* ln 2 - Ln2Hi

ExpMax == [k |-> "num", m |-> 11629080, e |-> -14]  \* 709.78: above it exp is Infinity

ExpMin == [k |-> "num", m |-> -12208263, e |-> -14] \* -745.13: below it exp is 0

RECURSIVE ExpPoly(_, _, _)
\* Horner's rule for the Taylor series of exp: from acc = 1 + r/(n+1) * (...),
\* 1 + r/1 * (1 + r/2 * (... (1 + r/n * acc))).
ExpPoly(r, n, acc) ==
    IF acc.k = "nan" THEN NaN
    ELSE IF n = 0 THEN acc
    ELSE ExpPoly(r, n - 1, FAdd(One, FMul(FDiv(r, FromInt(n)), acc)))

\* Math.exp(a): a = k ln 2 + r, exp(a) = 2^k exp(r).
MathExp(a) ==
    IF a.k = "nan" THEN NaN
    ELSE IF a.k = "inf" THEN (IF a.m > 0 THEN a ELSE Zero)
    ELSE IF a.m = 0 THEN One
    ELSE IF FGt(a, ExpMax) THEN Inf(1)
    ELSE IF FLt(a, ExpMin) THEN Zero
    ELSE LET kk == NearestInt(FMul(a, Log2E))
             kf == FromInt(kk)
             r == FSub(FSub(a, FMul(kf, Ln2Hi)), FMul(kf, Ln2Lo))
             p == ExpPoly(r, 8, One)
         IN  [p EXCEPT !.e = p.e + kk]

Pi == [k |-> "num", m |-> 13176795, e |-> -22]      \* Math.PI

TwoOverPi == [k |-> "num", m |-> 10680707, e |-> -24]

PiO2Hi == [k |-> "num", m |-> 13172736, e |-> -23]  \* 1.5703125

PiO2Lo == [k |-> "num", m |-> 16624162, e |-> -35]  \* pi/2 - PiO2Hi

RECURSIVE TrigPoly(_, _, _)
\* Horner's rule for the Taylor series of cos (n odd) and of sin(r)/r (n even)
\* in z = r^2: from acc, 1 - z/((n-1)n) * acc, down to n = 2 or n = 3.
TrigPoly(z, n, acc) ==
    IF acc.k = "nan" THEN NaN
    ELSE IF n < 2 THEN acc
    ELSE TrigPoly(z, n - 2, FSub(One, FMul(FDiv(z, FromInt((n - 1) * n)), acc)))

\* Math.sin(a): a = k pi/2 + r, |r| <= pi/4 (|a| < 2^16).
MathSin(a) ==
    IF a.k # "num" THEN NaN
    ELSE IF a.m = 0 THEN Zero
    ELSE LET kk == NearestInt(FMul(a, TwoOverPi))
             kf == FromInt(kk)
             r == FSub(FSub(a, FMul(kf, PiO2Hi)), FMul(kf, PiO2Lo))
             z == FMul(r, r)
             sn == FMul(r, TrigPoly(z, 11, One))
             cs == TrigPoly(z, 10, One)
             quad == kk % 4
         IN  IF quad = 0 THEN sn
             ELSE IF quad = 1 THEN cs
             ELSE IF quad = 2 THEN FNeg(sn)
             ELSE FNeg(cs)

\* Math.cos(Math.atan(x)) = 1 / sqrt(1 + x^2)
CosAtan(x) == FDiv(One, MathSqrt(FAdd(One, FMul(x, x))))

\* Math.sin(Math.atan(x)) = x / sqrt(1 + x^2)
SinAtan(x) == FDiv(x, MathSqrt(FAdd(One, FMul(x, x))))

(***************************************************************************)
(* The form state of App (src/App.tsx, useState).                          *)
(***************************************************************************)
VARIABLES genData, gsuData, uatData, sysData, partingTime, marginPercent, wave,
          memo, projectName, savedProjects, localStorage, savedAt, alert,
          aiAssessment, loadingAi, aiRequest, isExporting, pdfExport

\* The input state of the form.
formVars == <<genData, gsuData, uatData, sysData, partingTime, marginPercent>>

\* The project name, the list of saved projects and the browser's store.
\* savedAt records, for every name saved under, the inputs and the memoized
\* values of the render at its last save, and whether the form is as a load of
\* that name left it and whether the name was saved under before.  alert is
\* the last message window.alert showed.
projectVars == <<projectName, savedProjects, localStorage, savedAt, alert>>

\* The assessment text, its busy flag and the request in flight.
aiVars == <<aiAssessment, loadingAi, aiRequest>>

\* The busy flag of the PDF export and the export under way: its position,
\* the locals of its two page-splitting loops and the pages of the two documents.
exportVars == <<isExporting, pdfExport>>

vars == <<formVars, wave, memo, projectVars, aiVars, exportVars>>

(***************************************************************************)
(* The fault-current solvers (src/services/geminiService.ts).              *)
(***************************************************************************)

\* const omega = 2 * Math.PI * 60
Omega == FMul(FMul(FromInt(2), Pi), FromInt(60))

\* A DC component that grows with the parting time.
DcPercentGrowing(contactPartingTimeMs, tauMs) ==
    FMul(FromInt(100), MathExp(FDiv(contactPartingTimeMs, tauMs)))

\* const dcPercent = 100 * Math.exp(-contactPartingTimeMs / tauMs)
DcPercent(contactPartingTimeMs, tauMs) ==
    FMul(FromInt(100), MathExp(FDiv(FNeg(contactPartingTimeMs), tauMs)))

\* A base impedance linear in the voltage.
ZBaseLinear(uBase, sBase) == FDiv(uBase, sBase)

\* const zBase = Math.pow(uBase, 2) / sBase
ZBase(uBase, sBase) == FDiv(MathPow2(uBase), sBase)

\* A flag that is never set.
CurrentZerosSkippedNever(dcPercent) == FALSE

\* A flag that is set at 100 percent already.
CurrentZerosSkippedAt100(dcPercent) == FGe(dcPercent, FromInt(100))

\* const currentZerosSkipped = dcPercent > 100
CurrentZerosSkipped(dcPercent) == FGt(dcPercent, FromInt(100))

\* The system-source peak without the decay of the DC component.
SystemPeakUndamped(iSym, tauMs) == FMul(FMul(MathSqrt(FromInt(2)), iSym), FromInt(2))

\* const iPeak = Math.sqrt(2) * iSym * (1 + Math.exp(-10 / tauMs))
SystemPeak(iSym, tauMs) ==
    FMul(FMul(MathSqrt(FromInt(2)), iSym),
         FAdd(One, MathExp(FDiv(FromInt(-10), tauMs))))

\* const iPeak = Math.sqrt(2) * iSym * 2
GeneratorPeak(iSym) == FMul(FMul(MathSqrt(FromInt(2)), iSym), FromInt(2))

\* The constants calculateSystemSourceFault computes, in the order it computes
\* them (thetaSys and thetaGsu are used only through their cosine and sine;
\* peakFactor is computed and never used).
SystemSourceLocals(gen, gsu, sys, contactPartingTimeMs) ==
    LET uBase == gsu.secondaryVoltageKv
        zSysOhms == FDiv(MathPow2(uBase), sys.shortCircuitCapacityMva)
        zGsuOhms == FMul(FDiv(gsu.impedanceZ, FromInt(100)),
                         FDiv(MathPow2(uBase), gsu.mva))
        rSys == FMul(zSysOhms, CosAtan(sys.xrRatio))
        xSys == FMul(zSysOhms, SinAtan(sys.xrRatio))
        rGsu == FMul(zGsuOhms, CosAtan(gsu.xrRatio))
        xGsu == FMul(zGsuOhms, SinAtan(gsu.xrRatio))
        rTotal == FAdd(rSys, rGsu)
        xTotal == FAdd(xSys, xGsu)
        zTotal == MathSqrt(FAdd(FMul(rTotal, rTotal), FMul(xTotal, xTotal)))
        iSym == FDiv(uBase, FMul(MathSqrt(FromInt(3)), zTotal))
        tauMs == FMul(FDiv(xTotal, FMul(Omega, rTotal)), FromInt(1000))
        dcPercent == DcPercent(contactPartingTimeMs, tauMs)
        iDcKiloAmps == FMul(FMul(MathSqrt(FromInt(2)), iSym),
                            FDiv(dcPercent, FromInt(100)))
        iAsymBreaking == MathSqrt(FAdd(MathPow2(iSym), MathPow2(iDcKiloAmps)))
        iPeak == SystemPeak(iSym, tauMs)
    IN  [uBase |-> uBase, zSysOhms |-> zSysOhms, zGsuOhms |-> zGsuOhms,
         rSys |-> rSys, xSys |-> xSys, rGsu |-> rGsu, xGsu |-> xGsu,
         rTotal |-> rTotal, xTotal |-> xTotal, zTotal |-> zTotal,
         iSym |-> iSym, tauMs |-> tauMs, dcPercent |-> dcPercent,
         iDcKiloAmps |-> iDcKiloAmps, iAsymBreaking |-> iAsymBreaking,
         iPeak |-> iPeak]

calculateSystemSourceFault(gen, gsu, sys, contactPartingTimeMs) ==
    LET l == SystemSourceLocals(gen, gsu, sys, contactPartingTimeMs)
    IN  [source |-> "System",
         symmetricalCurrentkA |-> ToFixed2(l.iSym),
         dcComponentPercent |-> ToFixed2(l.dcPercent),
         peakCurrentkA |-> ToFixed2(l.iPeak),
         asymmetricalCurrentkA |-> ToFixed2(l.iAsymBreaking),
         breakingCapacityRequired |-> ToFixed2(l.iAsymBreaking),
         timeConstantMs |-> ToFixed2(l.tauMs),
         currentZerosSkipped |-> FALSE]

\* The constants calculateGeneratorSourceFault computes, in the order it
\* computes them.
GeneratorSourceLocals(gen, contactPartingTimeMs) ==
    LET uBase == gen.voltageKv
        sBase == gen.mva
        zBase == ZBase(uBase, sBase)
        xdDoublePrimeOhms == FMul(FDiv(gen.subtransientReactanceXd, FromInt(100)), zBase)
        rGen == FDiv(xdDoublePrimeOhms, gen.xrRatio)
        zGen == MathSqrt(FAdd(FMul(rGen, rGen),
                              FMul(xdDoublePrimeOhms, xdDoublePrimeOhms)))
        iSym == FDiv(uBase, FMul(MathSqrt(FromInt(3)), zGen))
        tauMs == FMul(FDiv(xdDoublePrimeOhms, FMul(Omega, rGen)), FromInt(1000))
        dcPercent == DcPercent(contactPartingTimeMs, tauMs)
        iDcKiloAmps == FMul(FMul(MathSqrt(FromInt(2)), iSym),
                            FDiv(dcPercent, FromInt(100)))
        iAsymBreaking == MathSqrt(FAdd(MathPow2(iSym), MathPow2(iDcKiloAmps)))
        iPeak == GeneratorPeak(iSym)
    IN  [uBase |-> uBase, sBase |-> sBase, zBase |-> zBase,
         xdDoublePrimeOhms |-> xdDoublePrimeOhms, rGen |-> rGen, zGen |-> zGen,
         iSym |-> iSym, tauMs |-> tauMs, dcPercent |-> dcPercent,
         iDcKiloAmps |-> iDcKiloAmps, iAsymBreaking |-> iAsymBreaking,
         iPeak |-> iPeak,
         currentZerosSkipped |-> CurrentZerosSkipped(dcPercent)]

calculateGeneratorSourceFault(gen, contactPartingTimeMs) ==
    LET l == GeneratorSourceLocals(gen, contactPartingTimeMs)
    IN  [source |-> "Generator",
         symmetricalCurrentkA |-> ToFixed2(l.iSym),
         dcComponentPercent |-> ToFixed2(l.dcPercent),
         peakCurrentkA |-> ToFixed2(l.iPeak),
         asymmetricalCurrentkA |-> ToFixed2(l.iAsymBreaking),
         breakingCapacityRequired |-> ToFixed2(l.iAsymBreaking),
         timeConstantMs |-> ToFixed2(l.tauMs),
         currentZerosSkipped |-> l.currentZerosSkipped]

(***************************************************************************)
(* The rating selection (src/App.tsx, the ratings memo).                   *)
(***************************************************************************)

\* const stdBreakKA = [31.5, 40, 50, 63, 72, 80, 90, 100, 120, 140, 160, 190, 200]
stdBreakKA ==
    <<FromRatio(315, 10), FromInt(40), FromInt(50), FromInt(63), FromInt(72),
      FromInt(80), FromInt(90), FromInt(100), FromInt(120), FromInt(140),
      FromInt(160), FromInt(190), FromInt(200)>>

RECURSIVE FindFrom(_, _, _)
\* arr.find(k => k >= x), from index i on; Zero stands for undefined, which is
\* falsy like it and is no element of stdBreakKA.
FindFrom(arr, i, x) ==
    IF i > Len(arr) THEN Zero
    ELSE IF FGe(arr[i], x) THEN arr[i]
    ELSE FindFrom(arr, i + 1, x)

\* A selector that falls back to the first entry of the list, not the last.
SelectSymKAFirst(marginSymKA) ==
    LET found == FindFrom(stdBreakKA, 1, marginSymKA)
    IN  IF found.k = "nan" \/ found.m = 0
        THEN stdBreakKA[1]
        ELSE found

\* stdBreakKA.find(k => k >= marginSymKA) || stdBreakKA[stdBreakKA.length - 1]
SelectSymKA(marginSymKA) ==
    LET found == FindFrom(stdBreakKA, 1, marginSymKA)
    IN  IF found.k = "nan" \/ found.m = 0
        THEN stdBreakKA[Len(stdBreakKA)]
        ELSE found

\* A selector that rounds to the nearest multiple of 500, not up.
SelectCurrentANearest(marginContinuousA) ==
    FMul(FromInt(NearestInt(FDiv(marginContinuousA, FromInt(500)))), FromInt(500))

\* Math.ceil(marginContinuousA / 500) * 500
SelectCurrentA(marginContinuousA) ==
    FMul(MathCeil(FDiv(marginContinuousA, FromInt(500))), FromInt(500))

\* A peak rating derived with the asymmetrical multiplier.
derivedPeakKASwapped(selectedSymKA) == FMul(selectedSymKA, FromRatio(1732, 1000))

\* const derivedPeakKA = selectedSymKA * 2.74
derivedPeakKA(selectedSymKA) == FMul(selectedSymKA, FromRatio(274, 100))

\* const derivedAsymKA = selectedSymKA * 1.732
derivedAsymKA(selectedSymKA) == FMul(selectedSymKA, FromRatio(1732, 1000))

\* The ratings memo.
Ratings(sysRes, genRes, gen, margin) ==
    LET continuousCurrentA == FDiv(FMul(gen.mva, FromInt(1000)),
                                   FMul(MathSqrt(FromInt(3)), gen.voltageKv))
        maxSymKA == MathMax(sysRes.symmetricalCurrentkA, genRes.symmetricalCurrentkA)
        maxAsymKA == MathMax(sysRes.asymmetricalCurrentkA, genRes.asymmetricalCurrentkA)
        maxPeakKA == MathMax(sysRes.peakCurrentkA, genRes.peakCurrentkA)
        marginFactor == FAdd(One, FDiv(margin, FromInt(100)))
        marginContinuousA == FMul(continuousCurrentA, marginFactor)
        marginSymKA == FMul(maxSymKA, marginFactor)
        marginAsymKA == FMul(maxAsymKA, marginFactor)
        marginPeakKA == FMul(maxPeakKA, marginFactor)
        selectedCurrentA == SelectCurrentA(marginContinuousA)
        selectedSymKA == SelectSymKA(marginSymKA)
    IN  [continuous |-> [calc |-> continuousCurrentA, margin |-> marginContinuousA,
                         selected |-> selectedCurrentA],
         sym |-> [calc |-> maxSymKA, margin |-> marginSymKA, selected |-> selectedSymKA],
         asym |-> [calc |-> maxAsymKA, margin |-> marginAsymKA, selected |-> derivedAsymKA(selectedSymKA)],
         peak |-> [calc |-> maxPeakKA, margin |-> marginPeakKA, selected |-> derivedPeakKA(selectedSymKA)]]

(***************************************************************************)
(* The memoized values (src/App.tsx, useMemo).  A memo keeps the values of *)
(* its dependency array at the last computation (deps) and the values its  *)
(* callback read then (args); the memoized value is the callback's pure    *)
(* function applied to args.  memo holds the four memos of App.            *)
(***************************************************************************)

\* useMemo: the callback runs again when a listed dependency has changed.
UseMemo(old, new) == IF old.deps = new.deps THEN old ELSE new

\* useMemo(() => calculateSystemSourceFault(genData, gsuData, sysData,
\* partingTime), [genData, gsuData, sysData, partingTime])
SysResultMemo(gen, gsu, sys, pt) ==
    [deps |-> <<gen, gsu, sys, pt>>,
     args |-> [gen |-> gen, gsu |-> gsu, sys |-> sys, contactPartingTimeMs |-> pt]]

\* useMemo(() => calculateGeneratorSourceFault(genData, partingTime),
\* [genData, partingTime])
GenResultMemo(gen, pt) ==
    [deps |-> <<gen, pt>>, args |-> [gen |-> gen, contactPartingTimeMs |-> pt]]

\* useMemo(() => generateWaveformData(genResult.symmetricalCurrentkA,
\* genResult.timeConstantMs), [genResult]); genResult stands in both as the
\* arguments it was computed from.
ChartDataMemo(genMemo) ==
    [deps |-> <<genMemo.args>>, args |-> [genRes |-> genMemo.args]]

\* A ratings memo whose dependency array lacks marginPercent.
RatingsMemoNoMargin(sysMemo, genMemo, gen, margin) ==
    [deps |-> <<sysMemo.args, genMemo.args, gen>>,
     args |-> [sysRes |-> sysMemo.args, genRes |-> genMemo.args,
               gen |-> gen, margin |-> margin]]

\* useMemo(() => {...}, [sysResult, genResult, genData, marginPercent])
RatingsMemo(sysMemo, genMemo, gen, margin) ==
    [deps |-> <<sysMemo.args, genMemo.args, gen, margin>>,
     args |-> [sysRes |-> sysMemo.args, genRes |-> genMemo.args,
               gen |-> gen, margin |-> margin]]

\* Before the first render no memo holds a value.
NoMemo ==
    LET none == [deps |-> <<>>, args |-> <<>>]
    IN  [sysResult |-> none, genResult |-> none, chartData |-> none, ratings |-> none]

\* One render of App: the four useMemo calls in their order.
Render(old, gen, gsu, sys, pt, margin) ==
    LET s == UseMemo(old.sysResult, SysResultMemo(gen, gsu, sys, pt))
        g == UseMemo(old.genResult, GenResultMemo(gen, pt))
        c == UseMemo(old.chartData, ChartDataMemo(g))
        r == UseMemo(old.ratings, RatingsMemo(s, g, gen, margin))
    IN  [sysResult |-> s, genResult |-> g, chartData |-> c, ratings |-> r]

\* The render that follows a state update.
RenderNext ==
    memo' = Render(memo, genData', gsuData', sysData', partingTime', marginPercent')

\* The system-source result computed from the arguments a.
SysResultOf(a) == calculateSystemSourceFault(a.gen, a.gsu, a.sys, a.contactPartingTimeMs)

\* The generator-source result computed from the arguments a.
GenResultOf(a) == calculateGeneratorSourceFault(a.gen, a.contactPartingTimeMs)

\* The memoized values the render displays.
sysResult == SysResultOf(memo.sysResult.args)

genResult == GenResultOf(memo.genResult.args)

ratings ==
    LET a == memo.ratings.args
    IN  Ratings(SysResultOf(a.sysRes), GenResultOf(a.genRes), a.gen, a.margin)

\* The arguments of the generateWaveformData call whose result chartData is
\* (freq is left to its default, 60).
chartData ==
    LET g == GenResultOf(memo.chartData.args.genRes)
    IN  [iSym |-> g.symmetricalCurrentkA, tauMs |-> g.timeConstantMs,
         freq |-> FromInt(60)]

(***************************************************************************)
(* The form: every InputGroup and the margin input set one field from the  *)
(* text typed, parseFloat(e.target.value) || 0.                            *)
(***************************************************************************)

\* A typed text: the decimal n/d as <<n, d>>, and the emptied field as <<0, 0>>.
ParseFloat(txt) == IF txt[2] = 0 THEN NaN ELSE FromRatio(txt[1], txt[2])

\* parseFloat(e.target.value) || 0
ParseInput(txt) ==
    LET v == ParseFloat(txt)
    IN  IF v.k = "nan" \/ v.m = 0 THEN Zero ELSE v

\* No call of getEngineeringAssessment is in flight.
NoRequest == [pending |-> FALSE, loaded |-> FALSE]

\* No export has run: handleExportPdf has no locals yet.
ExportIdle == [pc |-> "idle", contentHeight |-> Zero, heightLeft |-> Zero, pdfPages |-> 0,
               iHeight |-> Zero, hLeft |-> Zero, pdf2Pages |-> 0]

\* The state after construction: the useState defaults, the first render, and
\* the mount effect's updateSavedProjectsList over an empty store.
FormInit ==
    /\ genData = [mva |-> FromInt(100), voltageKv |-> FromRatio(138, 10),
                  powerFactor |-> FromRatio(85, 100),
                  subtransientReactanceXd |-> FromInt(15), xrRatio |-> FromInt(30)]
    /\ gsuData = [mva |-> FromInt(120), impedanceZ |-> FromInt(10),
                  xrRatio |-> FromInt(40), primaryVoltageKv |-> FromInt(154),
                  secondaryVoltageKv |-> FromRatio(138, 10)]
    /\ uatData = [mva |-> FromInt(10), impedanceZ |-> FromInt(8),
                  xrRatio |-> FromInt(15), secondaryVoltageKv |-> FromRatio(416, 100)]
    /\ sysData = [shortCircuitCapacityMva |-> FromInt(10000), xrRatio |-> FromInt(15)]
    /\ partingTime = FromInt(50)
    /\ marginPercent = FromInt(10)
    /\ memo = Render(NoMemo, genData, gsuData, sysData, partingTime, marginPercent)
    /\ projectName = "GCB Sizing Project - 001"
    /\ savedProjects = <<>>
    /\ localStorage = [k \in {} |-> ""]
    /\ savedAt = [k \in {} |-> ""]
    /\ alert = ""
    /\ aiAssessment = ""
    /\ loadingAi = FALSE
    /\ aiRequest = NoRequest
    /\ isExporting = FALSE
    /\ pdfExport = ExportIdle

\* No call of generateWaveformData is under way.
WaveIdle == [pc |-> "idle", iSym |-> Zero, tauMs |-> Zero, freq |-> Zero,
             t |-> Zero, data |-> <<>>]

Init == FormInit /\ wave = WaveIdle

\* The texts typed into the fields (the first of each is the initial value).
GenTexts ==
    [mva |-> {<<100, 1>>, <<500, 1>>},
     voltageKv |-> {<<138, 10>>, <<0, 0>>},
     subtransientReactanceXd |-> {<<15, 1>>},
     xrRatio |-> {<<30, 1>>, <<0, 0>>}]

GsuTexts ==
    [mva |-> {<<120, 1>>, <<1200, 1>>},
     impedanceZ |-> {<<10, 1>>},
     xrRatio |-> {<<40, 1>>},
     primaryVoltageKv |-> {<<154, 1>>}]

UatTexts ==
    [mva |-> {<<10, 1>>, <<20, 1>>},
     impedanceZ |-> {<<8, 1>>}]

SysTexts ==
    [shortCircuitCapacityMva |-> {<<10000, 1>>},
     xrRatio |-> {<<15, 1>>, <<0, 0>>}]

PartingTexts == {<<50, 1>>, <<0, 1>>, <<1000, 1>>, <<2000, 1>>, <<-1, 1000>>, <<-10, 1>>}

MarginTexts == {<<10, 1>>, <<0, 1>>, <<50, 1>>, <<11533, 1000>>}

\* onChange of a Generator Data field: setGenData({...genData, field: v})
SetGenData ==
    /\ \E f \in DOMAIN GenTexts : \E txt \in GenTexts[f] :
          genData' = [genData EXCEPT ![f] = ParseInput(txt)]
    /\ UNCHANGED <<gsuData, uatData, sysData, partingTime, marginPercent, wave, exportVars, projectVars, aiVars>>
    /\ RenderNext

\* onChange of a GSU Transformer field
SetGsuData ==
    /\ \E f \in DOMAIN GsuTexts : \E txt \in GsuTexts[f] :
          gsuData' = [gsuData EXCEPT ![f] = ParseInput(txt)]
    /\ UNCHANGED <<genData, uatData, sysData, partingTime, marginPercent, wave, exportVars, projectVars, aiVars>>
    /\ RenderNext

\* onChange of a Unit Auxiliary field
SetUatData ==
    /\ \E f \in DOMAIN UatTexts : \E txt \in UatTexts[f] :
          uatData' = [uatData EXCEPT ![f] = ParseInput(txt)]
    /\ UNCHANGED <<genData, gsuData, sysData, partingTime, marginPercent, wave, exportVars, projectVars, aiVars>>
    /\ RenderNext

\* onChange of a System field
SetSysData ==
    /\ \E f \in DOMAIN SysTexts : \E txt \in SysTexts[f] :
          sysData' = [sysData EXCEPT ![f] = ParseInput(txt)]
    /\ UNCHANGED <<genData, gsuData, uatData, partingTime, marginPercent, wave, exportVars, projectVars, aiVars>>
    /\ RenderNext

\* onChange of Contact Parting Time
SetPartingTime ==
    /\ \E txt \in PartingTexts : partingTime' = ParseInput(txt)
    /\ UNCHANGED <<genData, gsuData, uatData, sysData, marginPercent, wave, exportVars, projectVars, aiVars>>
    /\ RenderNext

\* onChange of the Margin input
SetMarginPercent ==
    /\ \E txt \in MarginTexts : marginPercent' = ParseInput(txt)
    /\ UNCHANGED <<genData, gsuData, uatData, sysData, partingTime, wave, exportVars, projectVars, aiVars>>
    /\ RenderNext

\* The X/R ratios and the grid capacity typed to make the time constants
\* small and large.
PeakGsuXrTexts == {<<40, 1>>, <<400, 1>>}

PeakSysXrTexts == {<<15, 1>>, <<1, 100>>, <<1000, 1>>}

PeakSysCapacityTexts == {<<10000, 1>>, <<100, 1>>}

PeakGenXrTexts == {<<30, 1>>, <<1, 10>>}

\* onChange of the GSU Transformer's X/R Ratio
SetGsuXrRatio ==
    /\ \E txt \in PeakGsuXrTexts : gsuData' = [gsuData EXCEPT !.xrRatio = ParseInput(txt)]
    /\ UNCHANGED <<genData, uatData, sysData, partingTime, marginPercent, wave, exportVars, projectVars, aiVars>>
    /\ RenderNext

\* onChange of the System's X/R Ratio
SetSysXrRatio ==
    /\ \E txt \in PeakSysXrTexts : sysData' = [sysData EXCEPT !.xrRatio = ParseInput(txt)]
    /\ UNCHANGED <<genData, gsuData, uatData, partingTime, marginPercent, wave, exportVars, projectVars, aiVars>>
    /\ RenderNext

\* onChange of the System's Grid Short Circuit MVA
SetSysCapacity ==
    /\ \E txt \in PeakSysCapacityTexts :
          sysData' = [sysData EXCEPT !.shortCircuitCapacityMva = ParseInput(txt)]
    /\ UNCHANGED <<genData, gsuData, uatData, partingTime, marginPercent, wave, exportVars, projectVars, aiVars>>
    /\ RenderNext

\* onChange of the Generator's X/R Ratio
SetGenXrRatio ==
    /\ \E txt \in PeakGenXrTexts : genData' = [genData EXCEPT !.xrRatio = ParseInput(txt)]
    /\ UNCHANGED <<gsuData, uatData, sysData, partingTime, marginPercent, wave, exportVars, projectVars, aiVars>>
    /\ RenderNext

Next ==
    \/ SetGenData
    \/ SetGsuData
    \/ SetUatData
    \/ SetSysData
    \/ SetPartingTime
    \/ SetMarginPercent

Spec == Init /\ [][Next]_vars

\* The form with the edits of the X/R ratios, of the grid capacity and of the
\* parting time.
NextPeak ==
    \/ SetGsuXrRatio
    \/ SetSysXrRatio
    \/ SetSysCapacity
    \/ SetGenXrRatio
    \/ SetPartingTime

SpecPeak == Init /\ [][NextPeak]_vars

(***************************************************************************)
(* Projects (src/App.tsx, handleSaveProject and handleLoadProject).        *)
(* localStorage maps keys to the texts JSON.stringify wrote.  A key is     *)
(* <<"gcb_proj_", name>>.  A JSON number is the decimal                    *)
(* sign * digits / 10^decimals, and null is what JSON.stringify writes for *)
(* NaN and the infinities.                                                 *)
(***************************************************************************)

\* The most decimals a JSON number of the model has.
MaxDecimals == 6

JsonNull == [kind |-> "null", sign |-> 1, digits |-> 0, decimals |-> 0]

\* The decimal with p decimals nearest to the number a > 0, as its digits.
DecimalDigits(a, p) == NearestInt(FMul(a, FromInt(10^p)))

\* The decimal with p decimals nearest to a > 0 reads back as a.
ReadsBack(a, p) ==
    /\ FLt(FMul(a, FromInt(10^p)), FromInt(2^30))
    /\ FromRatio(DecimalDigits(a, p), 10^p) = a

\* A number written with two decimals, as toFixed(2) writes it.
JsonNumberTwoDecimals(a) ==
    IF a.k # "num" THEN JsonNull
    ELSE [kind |-> "number", sign |-> Sgn(a.m),
          digits |-> DecimalDigits([a EXCEPT !.m = Abs(a.m)], 2), decimals |-> 2]

\* JSON.stringify of a number: the shortest decimal that reads back as the
\* number (Number::toString), and null for NaN and the infinities.
JsonNumber(a) ==
    IF a.k # "num" THEN JsonNull
    ELSE IF a.m = 0 THEN [kind |-> "number", sign |-> 1, digits |-> 0, decimals |-> 0]
    ELSE LET abs == [a EXCEPT !.m = Abs(a.m)]
             fits == {p \in 0..MaxDecimals : ReadsBack(abs, p)}
             p == IF fits = {} THEN MaxDecimals
                  ELSE CHOOSE q \in fits : \A r \in fits : q <= r
         IN  [kind |-> "number", sign |-> Sgn(a.m),
              digits |-> DecimalDigits(abs, p), decimals |-> p]

\* JSON.parse of a number text, and of null.
JsonParseNumber(txt) ==
    IF txt.kind = "null" THEN [k |-> "null", m |-> 0, e |-> 0]
    ELSE FromRatio(txt.sign * txt.digits, 10^txt.decimals)

\* JSON.stringify and JSON.parse of an object whose properties are numbers.
JsonObject(obj) == [f \in DOMAIN obj |-> JsonNumber(obj[f])]

JsonParseObject(txt) == [f \in DOMAIN txt |-> JsonParseNumber(txt[f])]

\* JSON.stringify(dataToSave); the timestamp is left out, no code reads it.
JsonStringify(data) ==
    [genData |-> JsonObject(data.genData), gsuData |-> JsonObject(data.gsuData),
     uatData |-> JsonObject(data.uatData), sysData |-> JsonObject(data.sysData),
     partingTime |-> JsonNumber(data.partingTime),
     marginPercent |-> JsonNumber(data.marginPercent)]

\* JSON.parse(item)
JsonParse(item) ==
    [genData |-> JsonParseObject(item.genData), gsuData |-> JsonParseObject(item.gsuData),
     uatData |-> JsonParseObject(item.uatData), sysData |-> JsonParseObject(item.sysData),
     partingTime |-> JsonParseNumber(item.partingTime),
     marginPercent |-> JsonParseNumber(item.marginPercent)]

\* The characters of the names, in the order of their UTF-16 code units.
Alphabet == " -0123456789ABCDEFGHIJKLMNOPQRSTUVWXYZ_abcdefghijklmnopqrstuvwxyz"

\* The character of s at position i.
CharAt(s, i) == SubSeq(s, i, i)

RECURSIVE TrimStart(_), TrimEnd(_), StringBefore(_, _), IndexOf(_, _, _), SortStrings(_)

TrimStart(s) ==
    IF Len(s) > 0 /\ CharAt(s, 1) = " " THEN TrimStart(SubSeq(s, 2, Len(s))) ELSE s

TrimEnd(s) ==
    IF Len(s) > 0 /\ CharAt(s, Len(s)) = " " THEN TrimEnd(SubSeq(s, 1, Len(s) - 1)) ELSE s

\* A trim that removes nothing.
TrimNothing(s) == s

\* String.prototype.trim
Trim(s) == TrimEnd(TrimStart(s))

\* a sorts before b in the order Array.prototype.sort uses without a
\* comparator: by code units, a prefix before what it is a prefix of.
StringBefore(a, b) ==
    LET CodeUnit(c) == CHOOSE i \in 1..Len(Alphabet) : CharAt(Alphabet, i) = c
    IN  IF Len(b) = 0 THEN FALSE
        ELSE IF Len(a) = 0 THEN TRUE
        ELSE IF CharAt(a, 1) # CharAt(b, 1)
             THEN CodeUnit(CharAt(a, 1)) < CodeUnit(CharAt(b, 1))
        ELSE StringBefore(SubSeq(a, 2, Len(a)), SubSeq(b, 2, Len(b)))

\* keys.sort()
SortStrings(S) ==
    IF S = {} THEN <<>>
    ELSE LET first == CHOOSE a \in S : \A b \in S \ {a} : StringBefore(a, b)
         IN  <<first>> \o SortStrings(S \ {first})

\* String.prototype.startsWith
StartsWith(s, prefix) == Len(s) >= Len(prefix) /\ SubSeq(s, 1, Len(prefix)) = prefix

\* The least position from i on at which pattern occurs in s, 0 when none.
IndexOf(s, pattern, i) ==
    IF i + Len(pattern) - 1 > Len(s) THEN 0
    ELSE IF SubSeq(s, i, i + Len(pattern) - 1) = pattern THEN i
    ELSE IndexOf(s, pattern, i + 1)

\* s.replace(pattern, ''): the first occurrence of the pattern is removed.
RemoveFirst(s, pattern) ==
    LET i == IndexOf(s, pattern, 1)
    IN  IF i = 0 THEN s
        ELSE SubSeq(s, 1, i - 1) \o SubSeq(s, i + Len(pattern), Len(s))

\* The names typed into the project name field.
ProjectNames == <<"GCB Sizing Project - 001", "Unit 2">>

\* `gcb_proj_${name}`
ProjectKey(name) == "gcb_proj_" \o name

\* localStorage.setItem(key, value)
SetItem(store, key, value) ==
    [k \in DOMAIN store \cup {key} |-> IF k = key THEN value ELSE store[k]]

\* updateSavedProjectsList: the names of the keys that start with gcb_proj_,
\* sorted.
SavedProjectsList(store) ==
    LET keys == {RemoveFirst(key, "gcb_proj_") :
                     key \in {k \in DOMAIN store : StartsWith(k, "gcb_proj_")}}
    IN  SortStrings(keys)

\* const dataToSave = {genData, gsuData, uatData, sysData, partingTime,
\* marginPercent, timestamp}
DataToSave ==
    [genData |-> genData, gsuData |-> gsuData, uatData |-> uatData,
     sysData |-> sysData, partingTime |-> partingTime,
     marginPercent |-> marginPercent]

\* onChange of the project name field
SetProjectName ==
    /\ \E i \in DOMAIN ProjectNames : projectName' = ProjectNames[i]
    /\ UNCHANGED <<formVars, wave, exportVars, savedProjects, localStorage, savedAt, alert, aiVars>>
    /\ RenderNext

\* The messages of the alerts (the saved message without the name it quotes).
SavedAlert == "Project saved successfully!"

NameAlert == "Please enter a project name."

SaveFailedAlert == "Failed to save project. Local storage might be full."

LoadFailedAlert == "Failed to load project data."

\* handleSaveProject, setItem succeeding: the item is written and the list
\* of saved projects is read again.
SaveProject ==
    /\ Trim(projectName) # ""
    /\ localStorage' = SetItem(localStorage, ProjectKey(projectName),
                               JsonStringify(DataToSave))
    /\ savedProjects' = SavedProjectsList(localStorage')
    /\ savedAt' = SetItem(savedAt, projectName,
                          [data |-> DataToSave, memo |-> memo, loaded |-> FALSE,
                           again |-> projectName \in DOMAIN savedAt])
    /\ alert' = SavedAlert
    /\ UNCHANGED <<formVars, wave, exportVars, projectName, aiVars>>
    /\ RenderNext

\* handleSaveProject with a name that trims to nothing: the alert, and return.
SaveProjectRejected ==
    /\ Trim(projectName) = ""
    /\ alert' = NameAlert
    /\ UNCHANGED <<formVars, wave, exportVars, projectName, savedProjects, localStorage, savedAt, aiVars>>
    /\ RenderNext

\* handleSaveProject, setItem throwing: the catch block alerts.
SaveProjectFails ==
    /\ Trim(projectName) # ""
    /\ alert' = SaveFailedAlert
    /\ UNCHANGED <<formVars, wave, exportVars, projectName, savedProjects, localStorage, savedAt, aiVars>>
    /\ RenderNext

\* handleLoadProject for an option of the select, getItem and JSON.parse
\* succeeding.  A request in flight is marked as older than the load.
LoadProjectOf(selectedName) ==
    LET key == ProjectKey(selectedName)
    IN  /\ key \in DOMAIN localStorage
        /\ LET data == JsonParse(localStorage[key])
           IN  /\ genData' = data.genData
               /\ gsuData' = data.gsuData
               /\ uatData' = data.uatData
               /\ sysData' = data.sysData
               /\ partingTime' = data.partingTime
               /\ marginPercent' = data.marginPercent
        /\ projectName' = selectedName
        /\ aiAssessment' = ""
        /\ aiRequest' = [aiRequest EXCEPT !.loaded = aiRequest.pending]
        /\ savedAt' = [n \in DOMAIN savedAt |->
                           [savedAt[n] EXCEPT !.loaded = (n = selectedName)]]
        /\ UNCHANGED <<wave, exportVars, savedProjects, localStorage, alert, loadingAi>>
        /\ RenderNext

\* onChange of the select: one of the options, the saved projects.
LoadProject == \E i \in DOMAIN savedProjects : LoadProjectOf(savedProjects[i])

\* A load that has set the generator's MVA to 0 before it fails.
LoadProjectFailsHalfway ==
    /\ savedProjects # <<>>
    /\ alert' = LoadFailedAlert
    /\ genData' = [genData EXCEPT !.mva = Zero]
    /\ UNCHANGED <<gsuData, uatData, sysData, partingTime, marginPercent, wave, exportVars,
                   projectName, savedProjects, localStorage, savedAt, aiVars>>
    /\ RenderNext

\* handleLoadProject, getItem or JSON.parse throwing: the catch block alerts.
LoadProjectFails ==
    /\ savedProjects # <<>>
    /\ alert' = LoadFailedAlert
    /\ UNCHANGED <<formVars, wave, exportVars, projectName, savedProjects, localStorage, savedAt, aiVars>>
    /\ RenderNext

(***************************************************************************)
(* The assessment (src/App.tsx, handleAiAnalysis, and                      *)
(* getEngineeringAssessment of src/services/geminiService.ts).  The text   *)
(* the service answers is not modelled beyond being an answer.             *)
(***************************************************************************)

\* response.text
AssessmentText == "assessment"

\* The text the catch block of getEngineeringAssessment returns.
AssessmentError == "Error retrieving AI assessment. Please ensure API key is configured."

\* handleAiAnalysis up to its await (the button is disabled while loadingAi).
RunAssessment ==
    /\ ~loadingAi
    /\ loadingAi' = TRUE
    /\ aiRequest' = [pending |-> TRUE, loaded |-> FALSE]
    /\ UNCHANGED <<formVars, wave, exportVars, projectVars, aiAssessment>>
    /\ RenderNext

\* handleAiAnalysis after its await, text being what the request answered.
AssessmentSettles(text) ==
    /\ aiRequest.pending
    /\ aiAssessment' = text
    /\ loadingAi' = FALSE
    /\ aiRequest' = NoRequest
    /\ UNCHANGED <<formVars, wave, exportVars, projectVars>>
    /\ RenderNext

\* generateContent answers.
AssessmentSucceeds == AssessmentSettles(AssessmentText)

\* generateContent throws.
AssessmentFails == AssessmentSettles(AssessmentError)

\* An edit of the form: the form is no longer as a load left it.
Edited(history) == [n \in DOMAIN history |-> [history[n] EXCEPT !.loaded = FALSE]]

\* The edits of the form between saves and loads.
AppGenTexts == {<<100, 1>>, <<500, 1>>}

AppPartingTexts == {<<50, 1>>, <<-1, 1000>>}

AppMarginTexts == {<<10, 1>>, <<0, 1>>}

\* onChange of Rated MVA
AppSetGenData ==
    /\ \E txt \in AppGenTexts : genData' = [genData EXCEPT !.mva = ParseInput(txt)]
    /\ savedAt' = Edited(savedAt)
    /\ UNCHANGED <<gsuData, uatData, sysData, partingTime, marginPercent, wave, exportVars,
                   projectName, savedProjects, localStorage, alert, aiVars>>
    /\ RenderNext

\* onChange of Contact Parting Time
AppSetPartingTime ==
    /\ \E txt \in AppPartingTexts : partingTime' = ParseInput(txt)
    /\ savedAt' = Edited(savedAt)
    /\ UNCHANGED <<genData, gsuData, uatData, sysData, marginPercent, wave, exportVars,
                   projectName, savedProjects, localStorage, alert, aiVars>>
    /\ RenderNext

\* onChange of the Margin input
AppSetMarginPercent ==
    /\ \E txt \in AppMarginTexts : marginPercent' = ParseInput(txt)
    /\ savedAt' = Edited(savedAt)
    /\ UNCHANGED <<genData, gsuData, uatData, sysData, partingTime, wave, exportVars,
                   projectName, savedProjects, localStorage, alert, aiVars>>
    /\ RenderNext

\* The form, the project name, saving and loading.
NextProject ==
    \/ AppSetGenData
    \/ AppSetPartingTime
    \/ AppSetMarginPercent
    \/ SetProjectName
    \/ SaveProject
    \/ LoadProject

SpecProject == Init /\ [][NextProject]_vars

\* The names typed before saving: two that trim to nothing among them.
SaveNames == {"GCB Sizing Project - 001", "Unit 2", "Unit 10", "", "  "}

\* onChange of the project name field
TypeProjectName ==
    /\ \E name \in SaveNames : projectName' = name
    /\ UNCHANGED <<formVars, wave, exportVars, savedProjects, localStorage, savedAt, alert, aiVars>>
    /\ RenderNext

\* Saving under the names typed, with edits of the parting time between.
NextSave ==
    \/ TypeProjectName
    \/ AppSetPartingTime
    \/ SaveProject
    \/ SaveProjectRejected

SpecSave == Init /\ [][NextSave]_vars

(***************************************************************************)
(* The PDF export (handleExportPdf), one step per await and per iteration  *)
(* of its two page-splitting loops.  What follows the await runs without   *)
(* giving way to another handler; the steps of other handlers the model    *)
(* lets in between read and write nothing of the export.                   *)
(***************************************************************************)

\* The page of jsPDF('p', 'mm', 'a4'), in millimetres.
pdfWidth == FromInt(210)

pdfHeight == FromInt(297)

\* The width and height in pixels of the canvases html2canvas resolves with:
\* one page, three pages, and two heights that are whole pages.
CanvasSizes == {<<2400, 3000>>, <<2400, 8000>>, <<210, 297>>, <<210, 594>>}

ExportFailedAlert == "Failed to export PDF."

\* A catch block without the finally block: the flag stays as it is.
FinallySkipped(flag) == flag

\* finally { setIsExporting(false) }
Finally(flag) == FALSE

\* The click on "PDF" up to the await (the button is disabled while isExporting).
ExportPdf ==
    /\ ~isExporting
    /\ isExporting' = TRUE
    /\ pdfExport' = [ExportIdle EXCEPT !.pc = "capture"]
    /\ UNCHANGED <<formVars, wave, projectVars, aiVars>>
    /\ RenderNext

\* contentHeight = (imgProps.height * contentWidth) / imgProps.width, for
\* each canvas of the width size[1] and the height size[2].
ContentHeights ==
    {FDiv(FMul(FromInt(size[2]), pdfWidth), FromInt(size[1])) : size \in CanvasSizes}

\* html2canvas resolves: the image height scaled to the page width, the first
\* page of the first document, heightLeft -= pdfHeight.
ExportCaptured ==
    /\ pdfExport.pc = "capture"
    /\ \E contentHeight \in ContentHeights :
           pdfExport' = [pdfExport EXCEPT !.pc = "first",
                                          !.contentHeight = contentHeight,
                                          !.heightLeft = FSub(contentHeight, pdfHeight),
                                          !.pdfPages = 1]
    /\ UNCHANGED <<formVars, wave, memo, projectVars, aiVars, isExporting>>

\* while (heightLeft > 0): one iteration.
ExportFirstLoop ==
    /\ pdfExport.pc = "first"
    /\ FGt(pdfExport.heightLeft, Zero)
    /\ pdfExport' = [pdfExport EXCEPT !.pdfPages = @ + 1,
                                      !.heightLeft = FSub(@, pdfHeight)]
    /\ UNCHANGED <<formVars, wave, memo, projectVars, aiVars, isExporting>>

\* The first loop ends: pdf2 gets its first page, hLeft -= pHeight.
ExportFirstDone ==
    /\ pdfExport.pc = "first"
    /\ ~FGt(pdfExport.heightLeft, Zero)
    /\ LET iHeight == pdfExport.contentHeight
       IN  pdfExport' = [pdfExport EXCEPT !.pc = "second",
                                          !.iHeight = iHeight,
                                          !.hLeft = FSub(iHeight, pdfHeight),
                                          !.pdf2Pages = 1]
    /\ UNCHANGED <<formVars, wave, memo, projectVars, aiVars, isExporting>>

\* while (hLeft >= 0): one iteration.
ExportSecondLoop ==
    /\ pdfExport.pc = "second"
    /\ FGe(pdfExport.hLeft, Zero)
    /\ pdfExport' = [pdfExport EXCEPT !.pdf2Pages = @ + 1,
                                      !.hLeft = FSub(@, pdfHeight)]
    /\ UNCHANGED <<formVars, wave, memo, projectVars, aiVars, isExporting>>

\* The second loop ends.
ExportSecondDone ==
    /\ pdfExport.pc = "second"
    /\ ~FGe(pdfExport.hLeft, Zero)
    /\ pdfExport' = [pdfExport EXCEPT !.pc = "save"]
    /\ UNCHANGED <<formVars, wave, memo, projectVars, aiVars, isExporting>>

\* pdf2.save returns, then the finally block.
ExportSaved ==
    /\ pdfExport.pc = "save"
    /\ isExporting' = Finally(isExporting)
    /\ pdfExport' = [pdfExport EXCEPT !.pc = "saved"]
    /\ UNCHANGED <<formVars, wave, projectVars, aiVars>>
    /\ RenderNext

\* html2canvas rejects, or a call of jsPDF throws: the catch block alerts,
\* then the finally block.
ExportThrows ==
    /\ pdfExport.pc \in {"capture", "first", "second", "save"}
    /\ alert' = ExportFailedAlert
    /\ isExporting' = Finally(isExporting)
    /\ pdfExport' = [pdfExport EXCEPT !.pc = "failed"]
    /\ UNCHANGED <<formVars, wave, projectName, savedProjects, localStorage, savedAt, aiVars>>
    /\ RenderNext

\* The two buttons with a busy flag, and what their handlers do.
NextBusy ==
    \/ RunAssessment
    \/ AssessmentSucceeds
    \/ AssessmentFails
    \/ ExportPdf
    \/ ExportCaptured
    \/ ExportFirstLoop
    \/ ExportFirstDone
    \/ ExportSecondLoop
    \/ ExportSecondDone
    \/ ExportSaved
    \/ ExportThrows

\* A handler that was called keeps running, and a promise it awaits settles.
SpecBusy ==
    /\ Init
    /\ [][NextBusy]_vars
    /\ WF_vars(AssessmentSucceeds \/ AssessmentFails)
    /\ WF_vars(ExportCaptured \/ ExportFirstLoop \/ ExportFirstDone \/ ExportSecondLoop
                   \/ ExportSecondDone \/ ExportSaved \/ ExportThrows)

\* The assessment among edits of Rated MVA and the margin, saves and loads
\* under the initial project name, and their failures.
NextAssessment ==
    \/ AppSetGenData
    \/ AppSetMarginPercent
    \/ SaveProject
    \/ SaveProjectFails
    \/ LoadProject
    \/ LoadProjectFails
    \/ RunAssessment
    \/ AssessmentSucceeds
    \/ AssessmentFails

SpecAssessment == Init /\ [][NextAssessment]_vars

(***************************************************************************)
(* generateWaveformData (src/services/geminiService.ts), one loop          *)
(* iteration per step.  wave holds the arguments, the loop variable t and  *)
(* the array data built so far.                                            *)
(***************************************************************************)

\* The loop is cut off at this many samples.
MaxSamples == 120

\* The arguments of the calls: <<n, d>> is the number n/d.
WaveISyms == {<<20, 1>>, <<2788, 100>>}

WaveTaus == {<<50, 1>>, <<7958, 100>>, <<0, 1>>}

WaveFreqs == {<<60, 1>>, <<50, 1>>, <<1000, 1>>, <<0, 1>>}

\* const omega = 2 * Math.PI * freq
WaveOmega(freq) == FMul(FMul(FromInt(2), Pi), freq)

\* Four cycles in place of five.
WaveTotalTime4(freq) == FMul(FromInt(4), FDiv(FromInt(1000), freq))

\* const totalTime = 5 * (1000/freq)
WaveTotalTime(freq) == FMul(FromInt(5), FDiv(FromInt(1000), freq))

\* The object pushed for the loop variable t.
WaveSample(iSym, tauMs, freq, t) ==
    LET tSec == FDiv(t, FromInt(1000))
        ac == FMul(FMul(MathSqrt(FromInt(2)), iSym), MathSin(FMul(WaveOmega(freq), tSec)))
        dc == FMul(FMul(MathSqrt(FromInt(2)), iSym), MathExp(FDiv(FNeg(t), tauMs)))
        total == FAdd(ac, dc)
    IN  [time |-> t, current |-> total, dc |-> dc,
         envelopePos |-> FAdd(dc, FMul(MathSqrt(FromInt(2)), iSym)),
         envelopeNeg |-> FSub(dc, FMul(MathSqrt(FromInt(2)), iSym))]

\* The call: const data = []; let t = 0
WaveCall ==
    \E i \in WaveISyms : \E tau \in WaveTaus : \E f \in WaveFreqs :
        wave = [pc |-> "loop", iSym |-> FromRatio(i[1], i[2]),
                tauMs |-> FromRatio(tau[1], tau[2]), freq |-> FromRatio(f[1], f[2]),
                t |-> Zero, data |-> <<>>]

\* One iteration: t <= totalTime holds, the sample is pushed, t += 1.
WaveLoop ==
    /\ wave.pc = "loop"
    /\ FLe(wave.t, WaveTotalTime(wave.freq))
    /\ Len(wave.data) < MaxSamples
    /\ wave' = [wave EXCEPT
                   !.data = Append(@, WaveSample(wave.iSym, wave.tauMs, wave.freq, wave.t)),
                   !.t = FAdd(@, One)]
    /\ UNCHANGED <<formVars, memo, projectVars, aiVars, exportVars>>

\* The loop condition fails: return data.
WaveReturn ==
    /\ wave.pc = "loop"
    /\ ~FLe(wave.t, WaveTotalTime(wave.freq))
    /\ wave' = [wave EXCEPT !.pc = "done"]
    /\ UNCHANGED <<formVars, memo, projectVars, aiVars, exportVars>>

NextWave ==
    \/ WaveLoop
    \/ WaveReturn

InitWave == FormInit /\ WaveCall

SpecWave == InitWave /\ [][NextWave]_vars

(***************************************************************************)
(* Properties of the rating selection.                                     *)
(***************************************************************************)

\* The standard breaking-current ratings, as the specification lists them.
StandardRatings ==
    {FromRatio(315, 10), FromInt(40), FromInt(50), FromInt(63), FromInt(72),
     FromInt(80), FromInt(90), FromInt(100), FromInt(120), FromInt(140),
     FromInt(160), FromInt(190), FromInt(200)}

\* The selected symmetrical rating is the right one for the margin-applied
\* symmetrical current m: a member of the list, the smallest one >= m, and 200
\* when none is >= m.
RightSymSelection(m, sel) ==
    LET ge == {k \in StandardRatings : FGe(k, m)}
    IN  /\ sel \in StandardRatings
        /\ ge # {} => sel \in ge /\ \A k \in ge : FLe(sel, k)
        /\ ge = {} => sel = FromInt(200)

\* C1: in every state of the form the selected symmetrical rating is the
\* smallest element of {31.5, 40, 50, 63, 72, 80, 90, 100, 120, 140, 160, 190,
\* 200} that is >= the margin-applied symmetrical current, and 200 when no
\* element is; 45 selects 50 and 205 selects 200.
C1_SmallestStandardRating ==
    /\ LET r == ratings IN RightSymSelection(r.sym.margin, r.sym.selected)
    /\ SelectSymKA(FromInt(45)) = FromInt(50)
    /\ SelectSymKA(FromInt(205)) = FromInt(200)

\* C1 witness: a margin-applied symmetrical current between two list entries
\* above the first, and the upper one selected.
C1_Witness ==
    /\ FGt(ratings.sym.margin, FromInt(63))
    /\ FLe(ratings.sym.margin, FromInt(72))
    /\ ratings.sym.selected = FromInt(72)

\* a is n * 500 for an integer n.
IsMultipleOf500(a) == \E n \in -10..200 : a = FromInt(500 * n)

\* The generator spec is valid as far as the continuous current goes: MVA > 0
\* and voltage > 0.
ValidContinuousInput == FGt(genData.mva, Zero) /\ FGt(genData.voltageKv, Zero)

\* C2: for a generator with MVA > 0 and voltage > 0 and every margin, the
\* margin-applied continuous current is MVA*1000/(sqrt(3)*kV) * (1+margin/100)
\* and the selected continuous rating is the smallest multiple of 500 at or
\* above it: a multiple of 500, >= the margin-applied value and less than 500
\* above it.
C2_SmallestMultipleOf500 ==
    ValidContinuousInput =>
        LET iCont == FDiv(FMul(genData.mva, FromInt(1000)),
                          FMul(MathSqrt(FromInt(3)), genData.voltageKv))
            m == FMul(iCont, FAdd(One, FDiv(marginPercent, FromInt(100))))
            r == ratings
            sel == r.continuous.selected
        IN  /\ r.continuous.margin = m
            /\ IsMultipleOf500(sel)
            /\ FGe(sel, m)
            /\ FLt(FSub(sel, m), FromInt(500))

\* C2 witness: a valid generator other than the initial one, whose
\* margin-applied continuous current is no multiple of 500 and is rounded up.
C2_Witness ==
    /\ ValidContinuousInput
    /\ genData.mva = FromInt(500)
    /\ FGt(ratings.continuous.selected, ratings.continuous.margin)
    /\ IsMultipleOf500(ratings.continuous.selected)

\* C3: the selected asymmetrical rating is the selected symmetrical rating
\* times 1.732 and the selected peak rating is the selected symmetrical rating
\* times 2.74, whatever the calculated and margin-applied asymmetrical and
\* peak currents are.
C3_DerivedFromSelectedSym ==
    LET r == ratings
    IN  /\ r.asym.selected = FMul(r.sym.selected, FromRatio(1732, 1000))
        /\ r.peak.selected = FMul(r.sym.selected, FromRatio(274, 100))

\* C3 witness: the selected peak rating is 2.74 times the selected symmetrical
\* rating although the margin-applied peak current is above it.
C3_Witness ==
    /\ ratings.sym.selected = FromInt(140)
    /\ ratings.peak.selected = FMul(FromInt(140), FromRatio(274, 100))
    /\ FGt(ratings.peak.margin, ratings.peak.selected)

\* c is the maximum of the numbers a and b.
IsMaxOf(c, a, b) == c \in {a, b} /\ FGe(c, a) /\ FGe(c, b)

\* The solver result r holds numbers for the three currents (no NaN).
CurrentsAreNumbers(r) ==
    /\ r.symmetricalCurrentkA.k # "nan"
    /\ r.asymmetricalCurrentkA.k # "nan"
    /\ r.peakCurrentkA.k # "nan"

\* C4: for the symmetrical, asymmetrical and peak parameter the calculated
\* value is the maximum of the system-source and the generator-source result
\* (when both are numbers) and the margin-applied value is the calculated
\* value times (1 + marginPercent/100).
C4_CalcIsMaxAndMarginApplied ==
    LET factor == FAdd(One, FDiv(marginPercent, FromInt(100)))
        s == sysResult
        g == genResult
        r == Ratings(s, g, genData, marginPercent)
    IN  /\ CurrentsAreNumbers(s) /\ CurrentsAreNumbers(g) =>
              /\ IsMaxOf(r.sym.calc, s.symmetricalCurrentkA, g.symmetricalCurrentkA)
              /\ IsMaxOf(r.asym.calc, s.asymmetricalCurrentkA, g.asymmetricalCurrentkA)
              /\ IsMaxOf(r.peak.calc, s.peakCurrentkA, g.peakCurrentkA)
        /\ r.sym.margin = FMul(r.sym.calc, factor)
        /\ r.asym.margin = FMul(r.asym.calc, factor)
        /\ r.peak.margin = FMul(r.peak.calc, factor)

\* C4 witness: the generator-source currents are the larger ones and a
\* margin other than the initial one is applied to them.
C4_Witness ==
    /\ CurrentsAreNumbers(sysResult) /\ CurrentsAreNumbers(genResult)
    /\ FGt(genResult.symmetricalCurrentkA, sysResult.symmetricalCurrentkA)
    /\ ratings.sym.calc = genResult.symmetricalCurrentkA
    /\ marginPercent = FromInt(50)
    /\ FGt(ratings.sym.margin, ratings.sym.calc)

\* The selected column of the rating table for the margin-applied symmetrical
\* current m: all that the selection reports besides m itself.
SelectionOutcome(m) ==
    LET sel == SelectSymKA(m)
    IN  [sym |-> sel, asym |-> derivedAsymKA(sel), peak |-> derivedPeakKA(sel)]

\* C5: when the margin-applied symmetrical current exceeds 200, the outcome of
\* the selection differs from the outcome for every margin-applied value in
\* (190, 200].
C5_ExhaustionReportedDistinctly ==
    LET m == ratings.sym.margin
    IN  FGt(m, FromInt(200)) =>
            \A v \in {FromInt(191), FromInt(195), FromInt(200)} :
                SelectionOutcome(m) # SelectionOutcome(v)

(***************************************************************************)
(* Properties of the fault-current solvers.                                *)
(***************************************************************************)

\* C6 as stated: the generator-source flag is true iff the result's DC
\* component percent is greater than 100, and the system-source flag is
\* false.
C6_FlagIffResultDcAbove100 ==
    LET g == genResult
    IN  /\ g.currentZerosSkipped <=> FGt(g.dcComponentPercent, FromInt(100))
        /\ ~sysResult.currentZerosSkipped

\* C6 amended: the generator-source flag is true iff the DC component percent
\* before rounding is greater than 100; so a result DC percent above 100 has
\* the flag set and a set flag has a result DC percent of at least 100.  The
\* system-source flag is false whatever the inputs.
C6_FlagIffUnroundedDcAbove100 ==
    LET g == genResult
        dc == GeneratorSourceLocals(genData, partingTime).dcPercent
    IN  /\ g.currentZerosSkipped <=> FGt(dc, FromInt(100))
        /\ FGt(g.dcComponentPercent, FromInt(100)) => g.currentZerosSkipped
        /\ g.currentZerosSkipped => FGe(g.dcComponentPercent, FromInt(100))
        /\ ~sysResult.currentZerosSkipped

\* C6 witness: the flag is set and the result's DC percent is exactly 100.
C6_Witness ==
    /\ genResult.currentZerosSkipped
    /\ genResult.dcComponentPercent = FromInt(100)
    /\ FLt(partingTime, Zero)

\* Every input the solvers read is positive.
PositiveInputs ==
    /\ \A f \in {"mva", "voltageKv", "subtransientReactanceXd", "xrRatio"} :
           FGt(genData[f], Zero)
    /\ \A f \in {"mva", "impedanceZ", "xrRatio", "secondaryVoltageKv"} :
           FGt(gsuData[f], Zero)
    /\ \A f \in {"shortCircuitCapacityMva", "xrRatio"} : FGt(sysData[f], Zero)

\* The currents and the time constant of the result r are >= 0 and its
\* asymmetrical current is >= its symmetrical current.
NonNegativeResult(r) ==
    /\ FGe(r.symmetricalCurrentkA, Zero)
    /\ FGe(r.asymmetricalCurrentkA, Zero)
    /\ FGe(r.peakCurrentkA, Zero)
    /\ FGe(r.timeConstantMs, Zero)
    /\ FGe(r.asymmetricalCurrentkA, r.symmetricalCurrentkA)

\* C7: for positive inputs and a non-negative parting time both solvers return
\* symmetrical, asymmetrical and peak currents and a time constant >= 0, and
\* an asymmetrical current >= the symmetrical current.
C7_NonNegativeResults ==
    PositiveInputs /\ FGe(partingTime, Zero) =>
        NonNegativeResult(sysResult) /\ NonNegativeResult(genResult)

\* C7 witness: positive inputs other than the initial ones, a positive parting
\* time, and a generator-source asymmetrical current above the symmetrical.
C7_Witness ==
    /\ PositiveInputs
    /\ genData.mva = FromInt(500)
    /\ gsuData.mva = FromInt(1200)
    /\ partingTime = FromInt(50)
    /\ NonNegativeResult(sysResult)
    /\ FGt(genResult.asymmetricalCurrentkA, genResult.symmetricalCurrentkA)

\* The contact parting times compared: the values the field is set to.
PartingTimes == {ParseInput(txt) : txt \in PartingTexts}

\* The DC component percent each solver returns for the current form data at
\* each of the parting times, as pairs <<t, DC%(t)>>.
GenDcTable ==
    {<<t, calculateGeneratorSourceFault(genData, t).dcComponentPercent>> :
        t \in PartingTimes}

SysDcTable ==
    {<<t, calculateSystemSourceFault(genData, gsuData, sysData, t).dcComponentPercent>> :
        t \in PartingTimes}

\* The time constant of each path, before rounding, is a positive number.
GenTauPositive ==
    LET tau == GeneratorSourceLocals(genData, partingTime).tauMs
    IN  tau.k = "num" /\ tau.m > 0

SysTauPositive ==
    LET tau == SystemSourceLocals(genData, gsuData, sysData, partingTime).tauMs
    IN  tau.k = "num" /\ tau.m > 0

\* C8 as stated: for a fixed positive time constant the returned DC percent is
\* strictly decreasing in the parting time and is exactly 100 at 0.
C8_DcStrictlyDecreasing ==
    /\ GenTauPositive =>
          LET tab == GenDcTable
          IN  /\ \A p1, p2 \in tab : FLt(p1[1], p2[1]) => FGt(p1[2], p2[2])
              /\ <<Zero, FromInt(100)>> \in tab
    /\ SysTauPositive =>
          LET tab == SysDcTable
          IN  /\ \A p1, p2 \in tab : FLt(p1[1], p2[1]) => FGt(p1[2], p2[2])
              /\ <<Zero, FromInt(100)>> \in tab

\* C8 amended: for a fixed positive time constant the returned DC percent,
\* which is rounded to two decimals, never increases with the parting time
\* (t1 < t2 implies DC%(t1) >= DC%(t2)) and is exactly 100 at 0.
C8_DcNonIncreasing ==
    /\ GenTauPositive =>
          LET tab == GenDcTable
          IN  /\ \A p1, p2 \in tab : FLt(p1[1], p2[1]) => FGe(p1[2], p2[2])
              /\ <<Zero, FromInt(100)>> \in tab
    /\ SysTauPositive =>
          LET tab == SysDcTable
          IN  /\ \A p1, p2 \in tab : FLt(p1[1], p2[1]) => FGe(p1[2], p2[2])
              /\ <<Zero, FromInt(100)>> \in tab

\* C8 witness: with a positive time constant the parting time is 2000 and the
\* returned DC percent is below that at 50 and equal to that at 1000.
C8_Witness ==
    /\ GenTauPositive
    /\ partingTime = FromInt(2000)
    /\ LET dc50 == calculateGeneratorSourceFault(genData, FromInt(50)).dcComponentPercent
           dc1000 == calculateGeneratorSourceFault(genData, FromInt(1000)).dcComponentPercent
       IN  /\ FLt(genResult.dcComponentPercent, dc50)
           /\ genResult.dcComponentPercent = dc1000

\* The generator is {100 MVA, 13.8 kV, Xd'' = 15 %, X/R = 30} and the parting
\* time is 50 ms.
ExampleGenerator ==
    /\ genData.mva = FromInt(100)
    /\ genData.voltageKv = FromRatio(138, 10)
    /\ genData.subtransientReactanceXd = FromInt(15)
    /\ genData.xrRatio = FromInt(30)
    /\ partingTime = FromInt(50)

\* C9 as stated: for the example generator the generator-source symmetrical
\* current is approximately 24.17 kA (within 0.01 of it).
C9_ExampleSymIs24_17 ==
    ExampleGenerator =>
        LET d == FSub(genResult.symmetricalCurrentkA, FromRatio(2417, 100))
        IN  FLe(d, FromRatio(1, 100)) /\ FGe(d, FromRatio(-1, 100))

\* C9 amended: for the example generator the generator-source symmetrical
\* current, V/(sqrt(3)*sqrt(R^2+X^2)) with X = 0.15 * 13.8^2/100 and R = X/30,
\* is returned as 27.88 kA.
C9_ExampleSymIs27_88 ==
    ExampleGenerator => genResult.symmetricalCurrentkA = FromRatio(2788, 100)

\* C9 witness: the example generator with a system other than the initial
\* one, and 27.88 kA returned.
C9_Witness ==
    /\ ExampleGenerator
    /\ gsuData.mva = FromInt(1200)
    /\ genResult.symmetricalCurrentkA = FromRatio(2788, 100)

(***************************************************************************)
(* Properties of the waveform sampler.                                     *)
(***************************************************************************)

\* The call under way is generateWaveformData(20, 50, 60).
ExampleWave ==
    /\ wave.iSym = FromInt(20)
    /\ wave.tauMs = FromInt(50)
    /\ wave.freq = FromInt(60)

\* The samples pushed so far start at time 0 and are exactly 1 ms apart.
WaveTimesFromZeroBy1 ==
    /\ Len(wave.data) >= 1 => wave.data[1].time = Zero
    /\ \A i \in 1..(Len(wave.data) - 1) :
           FSub(wave.data[i + 1].time, wave.data[i].time) = One

\* The first sample's DC term is sqrt(2)*I_sym, for a time constant other
\* than 0; for the time constant 0 it is -0/0, NaN.
WaveFirstDc ==
    Len(wave.data) >= 1 =>
        wave.data[1].dc = IF wave.tauMs = Zero THEN NaN
                          ELSE FMul(MathSqrt(FromInt(2)), wave.iSym)

\* C10 as stated: the call with I_sym = 20, tau = 50, f = 60 returns exactly
\* 5*(1000/60)+1 samples; for every frequency the samples start at 0, are 1 ms
\* apart, and the first DC term is sqrt(2)*I_sym.
C10_SampleCountIsFiveCyclesPlus1 ==
    /\ wave.pc = "done" /\ ExampleWave =>
           FromInt(Len(wave.data)) =
               FAdd(FMul(FromInt(5), FDiv(FromInt(1000), FromInt(60))), One)
    /\ WaveTimesFromZeroBy1
    /\ WaveFirstDc

\* C10 amended: the call with I_sym = 20, tau = 50, f = 60 returns 84 samples,
\* and every call returns floor(5*(1000/f)) + 1 samples: one for every whole
\* millisecond n with n <= 5*(1000/f).  The samples start at 0 and are 1 ms
\* apart, and the first DC term is sqrt(2)*I_sym (NaN for the time constant 0).
C10_SampleCountIsFloorPlus1 ==
    /\ wave.pc = "done" /\ ExampleWave => Len(wave.data) = 84
    /\ wave.pc = "done" =>
           LET total == FMul(FromInt(5), FDiv(FromInt(1000), wave.freq))
               n == Len(wave.data)
           IN  /\ n >= 1
               /\ FLe(FromInt(n - 1), total)
               /\ FGt(FromInt(n), total)
    /\ WaveTimesFromZeroBy1
    /\ WaveFirstDc

\* C10 witness: the call with I_sym = 20, tau = 50, f = 60 has returned, with
\* 84 samples of which the first has the DC term sqrt(2)*20.
C10_Witness ==
    /\ wave.pc = "done"
    /\ ExampleWave
    /\ Len(wave.data) = 84
    /\ wave.data[84].time = FromInt(83)
    /\ wave.data[1].dc = FMul(MathSqrt(FromInt(2)), FromInt(20))

\* C11: every call of the waveform sampler terminates, for every frequency it
\* is called with: the loop never reaches the cut-off of MaxSamples samples
\* with its condition t <= totalTime still true, and the samples of a returned
\* call span 0 to 5*1000/f ms at 1 ms resolution.
C11_SamplerTerminates ==
    /\ wave.pc = "loop" /\ Len(wave.data) = MaxSamples =>
           ~FLe(wave.t, WaveTotalTime(wave.freq))
    /\ WaveTimesFromZeroBy1
    /\ wave.pc = "done" =>
           /\ Len(wave.data) >= 1
           /\ FLe(wave.data[Len(wave.data)].time, WaveTotalTime(wave.freq))
           /\ FGt(FAdd(wave.data[Len(wave.data)].time, One), WaveTotalTime(wave.freq))

(***************************************************************************)
(* Invalid inputs.                                                         *)
(***************************************************************************)

\* Every number of the solver result r is finite (neither NaN nor Infinity).
ResultIsFinite(r) ==
    /\ r.symmetricalCurrentkA.k = "num"
    /\ r.dcComponentPercent.k = "num"
    /\ r.peakCurrentkA.k = "num"
    /\ r.asymmetricalCurrentkA.k = "num"
    /\ r.breakingCapacityRequired.k = "num"
    /\ r.timeConstantMs.k = "num"

\* Every number of the rating selection rt is finite.
RatingsAreFinite(rt) ==
    \A p \in {"continuous", "sym", "asym", "peak"} :
        /\ rt[p].calc.k = "num"
        /\ rt[p].margin.k = "num"
        /\ rt[p].selected.k = "num"

\* C12: no fault result and no rating selection that is computed and displayed
\* contains NaN or Infinity, whatever the form holds (a cleared field holds 0).
C12_NoNaNOrInfinityDisplayed ==
    /\ ResultIsFinite(sysResult)
    /\ ResultIsFinite(genResult)
    /\ RatingsAreFinite(ratings)

(***************************************************************************)
(* Saving and loading projects.                                            *)
(***************************************************************************)

\* The fault results and the rating selection a render with the memos m shows.
Displayed(m) ==
    [sysResult |-> SysResultOf(m.sysResult.args),
     genResult |-> GenResultOf(m.genResult.args),
     ratings |-> LET a == m.ratings.args
                 IN  Ratings(SysResultOf(a.sysRes), GenResultOf(a.genRes), a.gen, a.margin)]

\* C13: loading a name restores the generator, GSU, UAT and system specs, the
\* parting time and the margin exactly as they were when that name was last
\* saved, whatever edits and saves under other names came between, and the
\* fault results and rating selection shown after the load equal those shown
\* at the save: while the form is as a load of a name left it, the inputs and
\* the results shown are those of that name's last save.
C13_LoadRestoresSave ==
    \A n \in DOMAIN savedAt :
        savedAt[n].loaded =>
            /\ DataToSave = savedAt[n].data
            /\ Displayed(memo) = Displayed(savedAt[n].memo)

\* C13 witness: "Unit 2", saved with the parting time -0.001 ms, has been
\* loaded and the form holds what was saved, while the other name is saved
\* with other inputs.
C13_Witness ==
    /\ DOMAIN savedAt = {ProjectNames[1], ProjectNames[2]}
    /\ savedAt[ProjectNames[2]].loaded
    /\ projectName = ProjectNames[2]
    /\ DataToSave = savedAt[ProjectNames[2]].data
    /\ partingTime = FromRatio(-1, 1000)
    /\ savedAt[ProjectNames[1]].data # savedAt[ProjectNames[2]].data

(***************************************************************************)
(* Failures of the store and of the assessment service.                    *)
(***************************************************************************)

\* The step shows the alert of a failed save or of a failed load.
StorageFailureShown ==
    /\ alert' # alert
    /\ alert' \in {SaveFailedAlert, LoadFailedAlert}

\* The step is the arrival of a failed assessment request.
AssessmentFailureArrives ==
    /\ aiRequest.pending
    /\ ~aiRequest'.pending
    /\ aiAssessment' = AssessmentError

\* C14: a failed save, a failed load and a failed assessment request change no
\* input record and no memoized value (so no fault result and no rating
\* selection shown); a failed save or load changes neither the store, the list
\* of saved projects, the project name nor the assessment text, and a failed
\* request puts the placeholder message in the assessment text.
C14_FailuresChangeNoResult ==
    [][/\ StorageFailureShown =>
              UNCHANGED <<formVars, memo, projectName, savedProjects, localStorage,
                          aiVars>>
       /\ AssessmentFailureArrives =>
              UNCHANGED <<formVars, memo, projectName, savedProjects, localStorage>>]_vars

\* C14 witness: a load has failed and an assessment request has failed, with
\* Rated MVA at 500 and the project saved with Rated MVA 100.
C14_Witness ==
    /\ alert = LoadFailedAlert
    /\ aiAssessment = AssessmentError
    /\ genData.mva = FromInt(500)
    /\ projectName \in DOMAIN savedAt
    /\ savedAt[projectName].data.genData.mva = FromInt(100)

(***************************************************************************)
(* The memoized values.                                                    *)
(***************************************************************************)

\* C15: after every sequence of edits, margin and parting-time changes, saves
\* and loads, the system-source result, the generator-source result, the
\* rating selection and the waveform's arguments that are shown equal the pure
\* functions applied to the inputs the form holds now.
C15_MemosAreCurrent ==
    LET s == calculateSystemSourceFault(genData, gsuData, sysData, partingTime)
        g == calculateGeneratorSourceFault(genData, partingTime)
    IN  /\ sysResult = s
        /\ genResult = g
        /\ ratings = Ratings(s, g, genData, marginPercent)
        /\ chartData = [iSym |-> g.symmetricalCurrentkA, tauMs |-> g.timeConstantMs,
                        freq |-> FromInt(60)]

\* C15 witness: a project with Rated MVA 500, parting time -0.001 ms and margin
\* 0 has been loaded, and the rating selection shown is the one for these
\* inputs, 140 kA.
C15_Witness ==
    /\ \E n \in DOMAIN savedAt : savedAt[n].loaded
    /\ genData.mva = FromInt(500)
    /\ partingTime = FromRatio(-1, 1000)
    /\ marginPercent = Zero
    /\ memo.ratings.args.margin = Zero
    /\ ratings.sym.selected = FromInt(140)

(***************************************************************************)
(* Rounding.                                                               *)
(***************************************************************************)

\* The currents and the time constant of the solver's locals l, before
\* toFixed(2).
Unrounded(l) ==
    [symmetricalCurrentkA |-> l.iSym, asymmetricalCurrentkA |-> l.iAsymBreaking,
     peakCurrentkA |-> l.iPeak, timeConstantMs |-> l.tauMs]

\* C16: no rounded value is the input of the rating selection, so that the
\* selected ratings shown (continuous, symmetrical, asymmetrical, peak) are
\* those obtained from the unrounded fault currents.
C16_RatingsFromUnroundedCurrents ==
    LET sl == Unrounded(SystemSourceLocals(genData, gsuData, sysData, partingTime))
        gl == Unrounded(GeneratorSourceLocals(genData, partingTime))
        exact == Ratings(sl, gl, genData, marginPercent)
        shown == ratings
    IN  \A p \in {"continuous", "sym", "asym", "peak"} :
            shown[p].selected = exact[p].selected

(***************************************************************************)
(* The rating table (src/App.tsx, "GCB Rating Selection").                 *)
(***************************************************************************)

\* What the table shows for the rating selection rt besides the numbers of
\* its cells: the icon of its heading and the notes under the selected
\* ratings.  None of them is computed from rt.
RatingTableMarks(rt) ==
    [heading |-> "CheckCircle", continuous |-> "Rounded up (500A)",
     asym |-> "Derived from Sym", peak |-> "Derived (2.74 factor)"]

\* The table flags a sizing deficiency: it does not show the selection under
\* the check mark, or a derived rating without its plain note.
SizingDeficiencyFlagged(rt) ==
    \/ RatingTableMarks(rt).heading # "CheckCircle"
    \/ RatingTableMarks(rt).asym # "Derived from Sym"
    \/ RatingTableMarks(rt).peak # "Derived (2.74 factor)"

\* A derived selected rating of rt is below its margin-applied value.
DerivedRatingDeficient(rt) ==
    \/ FLt(rt.asym.selected, rt.asym.margin)
    \/ FLt(rt.peak.selected, rt.peak.margin)

\* C17: whenever the derived selected asymmetrical or peak rating is below
\* the corresponding margin-applied value, the rating table flags a sizing
\* deficiency.
C17_DeficiencyFlagged ==
    LET rt == ratings
    IN  DerivedRatingDeficient(rt) => SizingDeficiencyFlagged(rt)

(***************************************************************************)
(* The peak currents.                                                      *)
(***************************************************************************)

\* sqrt(2) * I_sym, the lower bound of a peak.
PeakLow(iSym) == FMul(MathSqrt(FromInt(2)), iSym)

\* 2 * sqrt(2) * I_sym, the undamped peak.
PeakHigh(iSym) == FMul(FMul(FromInt(2), MathSqrt(FromInt(2))), iSym)

\* The peak p is the system-source formula's for iSym and tau.
IsSystemPeak(p, iSym, tauMs) ==
    p = FMul(PeakLow(iSym), FAdd(One, MathExp(FDiv(FromInt(-10), tauMs))))

\* The time constant is a positive number.
TauPositive(tauMs) == tauMs.k = "num" /\ FGt(tauMs, Zero)

\* C18 as stated: the generator-source peak is 2*sqrt(2)*I_sym, the
\* system-source peak is sqrt(2)*I_sym*(1+exp(-10/tau)), and for a positive
\* tau the system-source peak is strictly between sqrt(2)*I_sym and
\* 2*sqrt(2)*I_sym.
C18_SystemPeakStrictlyBetween ==
    LET sl == SystemSourceLocals(genData, gsuData, sysData, partingTime)
        gl == GeneratorSourceLocals(genData, partingTime)
    IN  /\ gl.iPeak = PeakHigh(gl.iSym)
        /\ IsSystemPeak(sl.iPeak, sl.iSym, sl.tauMs)
        /\ TauPositive(sl.tauMs) =>
               /\ FLt(PeakLow(sl.iSym), sl.iPeak)
               /\ FLt(sl.iPeak, PeakHigh(sl.iSym))

\* C18 amended: the generator-source peak is 2*sqrt(2)*I_sym for every
\* parting time and time constant, the system-source peak is
\* sqrt(2)*I_sym*(1+exp(-10/tau)), and for a positive tau the system-source
\* peak is at least sqrt(2)*I_sym and at most 2*sqrt(2)*I_sym; it is strictly
\* between them for a tau from 1 ms to 1000 ms.
C18_SystemPeakBetween ==
    LET sl == SystemSourceLocals(genData, gsuData, sysData, partingTime)
        gl == GeneratorSourceLocals(genData, partingTime)
    IN  /\ gl.iPeak = PeakHigh(gl.iSym)
        /\ IsSystemPeak(sl.iPeak, sl.iSym, sl.tauMs)
        /\ TauPositive(sl.tauMs) =>
               /\ FLe(PeakLow(sl.iSym), sl.iPeak)
               /\ FLe(sl.iPeak, PeakHigh(sl.iSym))
        /\ FLe(One, sl.tauMs) /\ FLe(sl.tauMs, FromInt(1000)) =>
               /\ FLt(PeakLow(sl.iSym), sl.iPeak)
               /\ FLt(sl.iPeak, PeakHigh(sl.iSym))

\* C18 witness: with the grid capacity 100 MVA and the system's X/R ratio 0.01
\* tau is positive (0.25 ms) and the system-source peak equals sqrt(2)*I_sym;
\* the parting time is not the initial one and the generator-source peak is
\* 2*sqrt(2)*I_sym.
C18_Witness ==
    LET sl == SystemSourceLocals(genData, gsuData, sysData, partingTime)
        gl == GeneratorSourceLocals(genData, partingTime)
    IN  /\ sysData.shortCircuitCapacityMva = FromInt(100)
        /\ sysData.xrRatio = FromRatio(1, 100)
        /\ partingTime = FromInt(1000)
        /\ TauPositive(sl.tauMs)
        /\ FLt(sl.tauMs, One)
        /\ sl.iPeak = PeakLow(sl.iSym)
        /\ FGt(sl.iSym, Zero)
        /\ gl.iPeak = PeakHigh(gl.iSym)

(***************************************************************************)
(* The DC component of the generator-source fault.                         *)
(***************************************************************************)

\* The generator's MVA, voltage, reactance and X/R ratio are positive.
PositiveGenerator ==
    \A f \in {"mva", "voltageKv", "subtransientReactanceXd", "xrRatio"} :
        FGt(genData[f], Zero)

\* The flag of the result g is set only for a negative parting time or a time
\* constant that is not positive.
FlagOnlyForNegativeTimeOrTau(g) ==
    g.currentZerosSkipped => FLt(partingTime, Zero) \/ ~GenTauPositive

\* C19 as stated: for a positive generator spec and a parting time >= 0 the
\* generator-source DC component percent is in (0, 100] and the flag is
\* false; the flag is set only for a negative parting time or a non-positive
\* time constant.
C19_DcInLeftOpenInterval ==
    LET g == genResult
    IN  /\ PositiveGenerator /\ FGe(partingTime, Zero) =>
               /\ FGt(g.dcComponentPercent, Zero)
               /\ FLe(g.dcComponentPercent, FromInt(100))
               /\ ~g.currentZerosSkipped
        /\ FlagOnlyForNegativeTimeOrTau(g)

\* C19 amended: for a positive generator spec and a parting time >= 0 the
\* generator-source DC component percent is in [0, 100], before and after
\* rounding (the result holds 0 when the unrounded value is below 0.005), and
\* the flag is false; the flag is set only for a negative parting time or a
\* non-positive time constant.
C19_DcInClosedInterval ==
    LET g == genResult
        dcPercent == GeneratorSourceLocals(genData, partingTime).dcPercent
    IN  /\ PositiveGenerator /\ FGe(partingTime, Zero) =>
               /\ FGe(g.dcComponentPercent, Zero)
               /\ FLe(g.dcComponentPercent, FromInt(100))
               /\ FGe(dcPercent, Zero)
               /\ FLe(dcPercent, FromInt(100))
               /\ ~g.currentZerosSkipped
        /\ FlagOnlyForNegativeTimeOrTau(g)

\* C19 witness: the generator spec is positive, the parting time is 1000 ms,
\* the unrounded DC component percent is positive and below 0.005, and the
\* result holds 0 with the flag false.
C19_Witness ==
    LET g == genResult
        dcPercent == GeneratorSourceLocals(genData, partingTime).dcPercent
    IN  /\ PositiveGenerator
        /\ partingTime = FromInt(1000)
        /\ FGt(dcPercent, Zero)
        /\ FLt(dcPercent, FromRatio(5, 1000))
        /\ g.dcComponentPercent = Zero
        /\ ~g.currentZerosSkipped

(***************************************************************************)
(* The assessment and the loading of projects.                             *)
(***************************************************************************)

\* C20: the response to a request that was issued before a project was loaded
\* never becomes the assessment shown: when such a request settles, the
\* assessment text stays empty, as the load left it.
C20_StaleResponseNotDisplayed ==
    [][(aiRequest.pending /\ aiRequest.loaded /\ ~aiRequest'.pending) =>
           aiAssessment' = ""]_vars

(***************************************************************************)
(* Saving under typed names.                                               *)
(***************************************************************************)

\* The names the saved-project list shows.
ListedNames == {savedProjects[i] : i \in DOMAIN savedProjects}

\* The list is in the order sort() gives: each entry sorts before every later one.
ListIsSorted ==
    \A i, j \in DOMAIN savedProjects : i < j => StringBefore(savedProjects[i], savedProjects[j])

\* C21: a save under a name that is empty or only whitespace is rejected and
\* leaves the store and the saved-project list alone, so no such name is ever
\* stored or listed; after any sequence of successful saves the list is exactly
\* the sorted set of the names stored under the "gcb_proj_" prefix, and a name
\* saved more than once has a single entry, which holds the data of its last save.
C21_SavesKeepStoreAndList ==
    /\ \A key \in DOMAIN localStorage :
           /\ SubSeq(key, 1, 9) = "gcb_proj_"
           /\ SubSeq(key, 10, Len(key)) \in DOMAIN savedAt
    /\ \A n \in DOMAIN savedAt :
           /\ n \notin {"", " ", "  "}
           /\ ("gcb_proj_" \o n) \in DOMAIN localStorage
           /\ JsonParse(localStorage["gcb_proj_" \o n]) = savedAt[n].data
    /\ ListedNames = DOMAIN savedAt
    /\ Len(savedProjects) = Cardinality(DOMAIN savedAt)
    /\ ListIsSorted

\* C21 witness: the three names are saved and listed with "Unit 10" before
\* "Unit 2", "Unit 2" was saved a second time after an edit of the parting
\* time, and the last save attempt, under a name of two blanks, was rejected.
C21_Witness ==
    /\ savedProjects = <<"GCB Sizing Project - 001", "Unit 10", "Unit 2">>
    /\ savedAt["Unit 2"].again
    /\ savedAt["Unit 2"].data.partingTime = FromRatio(-1, 1000)
    /\ savedAt["Unit 10"].data.partingTime = FromRatio(50, 1)
    /\ projectName = "  "
    /\ alert = NameAlert

(***************************************************************************)
(* The busy flags.                                                         *)
(***************************************************************************)

\* handleExportPdf has been called and has not reached the end of its finally block.
ExportUnderWay == pdfExport.pc \in {"capture", "first", "second", "save"}

\* C22: the busy flags always clear.  loadingAi is true exactly while the
\* request of the assessment is in flight and, the request settling, is
\* eventually false again, whether it answered or failed; each of the two
\* page-splitting loops of the export is eventually left; isExporting is
\* true exactly while the export is under way and is eventually false again,
\* whether the export saved the document or threw.
C22_BusyFlagsClear ==
    /\ [](loadingAi <=> aiRequest.pending)
    /\ loadingAi ~> ~loadingAi
    /\ (pdfExport.pc = "first") ~> (pdfExport.pc # "first")
    /\ (pdfExport.pc = "second") ~> (pdfExport.pc # "second")
    /\ [](isExporting <=> ExportUnderWay)
    /\ isExporting ~> ~isExporting

\* C22 witness: both flags are clear again after a request that failed, an
\* export that threw and a later export whose loops added pages up to three in
\* each document before it saved.
C22_Witness ==
    /\ ~loadingAi
    /\ aiAssessment = AssessmentError
    /\ alert = ExportFailedAlert
    /\ ~isExporting
    /\ pdfExport.pc = "saved"
    /\ pdfExport.pdfPages = 3
    /\ pdfExport.pdf2Pages = 3

====
